---- MODULE Spec2Model ----
(***************************************************************************)
(* Model of app/backend/prepdocslib/textsplitter.py: the token-bounded     *)
(* recursive splitter (SentenceTextSplitter.split_page_by_max_tokens), the *)
(* sentence/word-boundary window loop (SentenceTextSplitter.split_pages)   *)
(* and the length-only splitter (SimpleTextSplitter.split_pages).          *)
(*                                                                         *)
(* A text is a sequence of one-character strings, indexed from 0 as in     *)
(* Python through At and Slice.  The alphabet keeps one character of each  *)
(* class the code distinguishes:                                           *)
(*    "a"  an ordinary character                                           *)
(*    "."  a sentence ending                                               *)
(*    " "  a word break that is also whitespace                            *)
(*    "H"  an ordinary character that encodes to two tokens                *)
(*    "F"  the opening tag "<figure", "G" the closing tag "</figure";      *)
(*         neither tag holds a sentence ending or a word break, and the    *)
(*         closing tag does not contain the opening one                    *)
(*                                                                         *)
(* The window loop is run with its lengths divided by Scale (one model     *)
(* character per Scale characters of the real buffer): with Resolution 20  *)
(* the section length is 20, the search limit 2 and the overlap 2, in the  *)
(* code's proportions 1000 : 100 : 100.                                    *)
(***************************************************************************)
EXTENDS Integers, Sequences, FiniteSets, TLC

VARIABLES
    pages,                    \* the argument of split_pages: records page_num, offset, text
    all_text,                 \* the concatenated buffer
    max_tokens_per_section,   \* the SentenceTextSplitter attribute
    max_object_length,        \* the SimpleTextSplitter attribute
    start,                    \* window loop: start
    end,                      \* window loop: end
    i,                        \* SimpleTextSplitter: loop index of range(0, length, max_object_length)
    pc,                       \* position of the running generator
    stack,                    \* pending calls of split_page_by_max_tokens, innermost first
    out,                      \* the SplitPages yielded so far, in order
    windows,                  \* history: the sections [start, end) cut by the window loop
    lastSplit                 \* history: lengths <<parent, first_half, second_half>> of the last recursion

vars == <<pages, all_text, max_tokens_per_section, max_object_length, start, end, i,
          pc, stack, out, windows, lastSplit>>

----------------------------------------------------------------------------
(* Program constants *)

DEFAULT_OVERLAP_PERCENT == 10
DEFAULT_SECTION_LENGTH == 1000
SENTENCE_SEARCH_LIMIT == 100
DEFAULT_MAX_TOKENS == 500

(* Bounds of the model *)

Resolution == 20      \* model characters per DEFAULT_SECTION_LENGTH characters
MaxLen == 23          \* longest of the shorter buffers given to SentenceTextSplitter.split_pages
LongExtra == 2        \* the longer buffers exceed two sections by 1..LongExtra characters
MaxPagesLen == 24     \* longest buffer in the page attribution runs
MaxTokLen == 12       \* longest text given directly to split_page_by_max_tokens
MaxBudget == 3        \* largest max_tokens_per_section in those direct calls
MaxDepth == 8         \* recursion depth at which Python raises RecursionError
MaxSimpleLen == 7     \* longest buffer given to SimpleTextSplitter.split_pages
MaxObjectLength == 4  \* largest max_object_length

Scale == DEFAULT_SECTION_LENGTH \div Resolution

max_section_length == DEFAULT_SECTION_LENGTH \div Scale
sentence_search_limit == SENTENCE_SEARCH_LIMIT \div Scale
section_overlap == (max_section_length * DEFAULT_OVERLAP_PERCENT) \div 100
default_max_tokens == DEFAULT_MAX_TOKENS \div Scale

sentence_endings == {"."}
word_breaks == {" "}
whitespace == {" "}
FIGURE_OPEN == "F"
FIGURE_CLOSE == "G"

----------------------------------------------------------------------------
(* Python string primitives *)

Min(a, b) == IF a < b THEN a ELSE b

\* text[k] for 0 <= k < len(text)
At(text, k) == text[k + 1]

\* text[a:b] for 0 <= a; b is clamped to len(text) as Python does
Slice(text, a, b) == SubSeq(text, a + 1, Min(b, Len(text)))

\* len(text.strip()) == 0
IsBlank(text) == \A k \in 1..Len(text) : text[k] \in whitespace

\* text.rfind(tag) for a one-character tag: the highest index holding it, or -1
RFind(text, tag) ==
    LET hits == {k \in 0..(Len(text) - 1) : At(text, k) = tag}
    IN IF hits = {} THEN -1 ELSE CHOOSE k \in hits : \A m \in hits : m <= k

\* len(bpe.encode(text)): the external token counter, one token per character
\* and two for "H"
RECURSIVE CountTokens(_)
CountTokens(text) ==
    IF text = <<>> THEN 0
    ELSE (IF Head(text) = "H" THEN 2 ELSE 1) + CountTokens(Tail(text))

\* "".join(page.text for page in pages)
RECURSIVE JoinPages(_)
JoinPages(pgs) == IF pgs = <<>> THEN <<>> ELSE Head(pgs).text \o JoinPages(Tail(pgs))

----------------------------------------------------------------------------
(* SentenceTextSplitter.split_page_by_max_tokens *)

\* mutant of WithinBudget: the budget test off by one
WithinBudgetLoose(text, budget) == CountTokens(text) <= budget + 1

\* the test of line 106
WithinBudget(text, budget) == CountTokens(text) <= budget

\* the spiral search of lines 116-124; split_position, or -1
RECURSIVE Spiral(_, _, _, _)
Spiral(text, mid, boundary, pos) ==
    IF ~(mid - pos > boundary) THEN -1
    ELSE IF At(text, mid - pos) \in sentence_endings THEN mid - pos
    ELSE IF At(text, mid + pos) \in sentence_endings THEN mid + pos
    ELSE Spiral(text, mid, boundary, pos + 1)

\* int(len(text) * (DEFAULT_OVERLAP_PERCENT / 100))
HalfOverlap(n) == (n * DEFAULT_OVERLAP_PERCENT) \div 100

\* mutant of Halves: the blind split starts the second half after the overlap
\* instead of before it
HalvesGap(text) ==
    LET n == Len(text)
        split_position == Spiral(text, n \div 2, n \div 3, 0)
        middle == n \div 2
        overlap == HalfOverlap(n)
    IN IF split_position > 0
       THEN [first  |-> Slice(text, 0, split_position + 1),
             second |-> Slice(text, split_position + 1, n),
             at     |-> split_position + 1]
       ELSE [first  |-> Slice(text, 0, middle - overlap),
             second |-> Slice(text, middle + overlap, n),
             at     |-> middle + overlap]

\* lines 112-135: the two halves, each with the index in text at which it starts
Halves(text) ==
    LET n == Len(text)
        split_position == Spiral(text, n \div 2, n \div 3, 0)
        middle == n \div 2
        overlap == HalfOverlap(n)
    IN IF split_position > 0
       THEN [first  |-> Slice(text, 0, split_position + 1),
             second |-> Slice(text, split_position + 1, n),
             at     |-> split_position + 1]
       ELSE [first  |-> Slice(text, 0, middle + overlap),
             second |-> Slice(text, middle - overlap, n),
             at     |-> middle - overlap]

\* a call split_page_by_max_tokens(page_num, text); off is the index of text
\* in the buffer and sec the start of the section it was cut from (history)
Call(page_num, text, off, sec, depth) ==
    [page_num |-> page_num, text |-> text, off |-> off, sec |-> sec, depth |-> depth]

\* lines 105-108: the text is within budget and is yielded
TokEmit ==
    /\ stack # <<>>
    /\ WithinBudget(Head(stack).text, max_tokens_per_section)
    /\ out' = Append(out, [page_num |-> Head(stack).page_num, text |-> Head(stack).text,
                           off |-> Head(stack).off, sec |-> Head(stack).sec])
    /\ stack' = Tail(stack)
    /\ UNCHANGED <<pages, all_text, max_tokens_per_section, max_object_length, start, end,
                   i, pc, windows, lastSplit>>

\* lines 109-137: the text is over budget; recurse on first_half, then second_half
TokSplit ==
    /\ stack # <<>>
    /\ ~WithinBudget(Head(stack).text, max_tokens_per_section)
    /\ Head(stack).depth < MaxDepth
    /\ LET c == Head(stack)
           h == Halves(c.text)
       IN /\ stack' = <<Call(c.page_num, h.first, c.off, c.sec, c.depth + 1),
                        Call(c.page_num, h.second, c.off + h.at, c.sec, c.depth + 1)>>
                      \o Tail(stack)
          /\ lastSplit' = <<Len(c.text), Len(h.first), Len(h.second)>>
    /\ UNCHANGED <<pages, all_text, max_tokens_per_section, max_object_length, start, end,
                   i, pc, out, windows>>

\* lines 136-137 at the interpreter's recursion limit: RecursionError ends the generator
TokOverflow ==
    /\ stack # <<>>
    /\ ~WithinBudget(Head(stack).text, max_tokens_per_section)
    /\ Head(stack).depth >= MaxDepth
    /\ pc' = "RecursionError"
    /\ stack' = <<>>
    /\ UNCHANGED <<pages, all_text, max_tokens_per_section, max_object_length, start, end,
                   i, out, windows, lastSplit>>

\* the generator is exhausted after its last yield from
Return ==
    /\ pc = "call"
    /\ stack = <<>>
    /\ pc' = "done"
    /\ UNCHANGED <<pages, all_text, max_tokens_per_section, max_object_length, start, end,
                   i, stack, out, windows, lastSplit>>

----------------------------------------------------------------------------
(* Inputs *)

\* texts of length n of ordinary characters with at most two characters of chars
TextsOfLen(n, chars) ==
    IF n = 0 THEN {<<>>}
    ELSE {[k \in 1..n |-> IF k = p THEN c ELSE IF k = q THEN d ELSE "a"] :
            p \in 1..n, q \in 1..n, c \in chars \cup {"a"}, d \in chars \cup {"a"}}

\* the pages of a buffer cut at the indices of cuts (increasing, inside the
\* buffer); page k has page_num k - 1 and offset the index at which it starts
PagesOf(text, cuts) ==
    LET bounds == <<0>> \o cuts \o <<Len(text)>>
    IN [k \in 1..(Len(cuts) + 1) |->
          [page_num |-> k - 1, offset |-> bounds[k],
           text |-> Slice(text, bounds[k], bounds[k + 1])]]

\* a direct call split_page_by_max_tokens(page_num, text)
InitTok ==
    /\ \E n \in 1..MaxTokLen : \E t \in TextsOfLen(n, {".", "H"}) : \E p \in 0..1 :
          /\ pages = <<[page_num |-> p, offset |-> 0, text |-> t]>>
          /\ all_text = t
          /\ stack = <<Call(p, t, 0, 0, 0)>>
    /\ max_tokens_per_section \in 1..MaxBudget
    /\ max_object_length = 0
    /\ start = 0
    /\ end = 0
    /\ i = 0
    /\ pc = "call"
    /\ out = <<>>
    /\ windows = <<>>
    /\ lastSplit = <<>>

NextTok == TokEmit \/ TokSplit \/ TokOverflow \/ Return

SpecTok == InitTok /\ [][NextTok]_vars

----------------------------------------------------------------------------
(* SentenceTextSplitter.split_pages *)

\* mutant of find_page: the lower bound of a page's range is tested strictly
RECURSIVE FindPageStrict(_, _, _)
FindPageStrict(pgs, offset, k) ==
    IF k > Len(pgs) - 1 THEN pgs[Len(pgs)].page_num
    ELSE IF offset > pgs[k].offset /\ offset < pgs[k + 1].offset THEN pgs[k].page_num
    ELSE FindPageStrict(pgs, offset, k + 1)

FindPageMutant(pgs, offset) == FindPageStrict(pgs, offset, 1)

\* find_page of lines 140-145
RECURSIVE FindPageFrom(_, _, _)
FindPageFrom(pgs, offset, k) ==
    IF k > Len(pgs) - 1 THEN pgs[Len(pgs)].page_num
    ELSE IF offset >= pgs[k].offset /\ offset < pgs[k + 1].offset THEN pgs[k].page_num
    ELSE FindPageFrom(pgs, offset, k + 1)

find_page(pgs, offset) == FindPageFrom(pgs, offset, 1)

\* mutant of FindEnd: the forward search without its sentence_search_limit test
RECURSIVE FindEndUnlimited(_, _, _, _)
FindEndUnlimited(text, s, e, last_word) ==
    IF /\ e < Len(text)
       /\ At(text, e) \notin sentence_endings
    THEN FindEndUnlimited(text, s, e + 1,
                          IF At(text, e) \in word_breaks THEN e ELSE last_word)
    ELSE <<e, last_word>>

\* the forward search of lines 166-173: <<end, last_word>>
RECURSIVE FindEnd(_, _, _, _)
FindEnd(text, s, e, last_word) ==
    IF /\ e < Len(text)
       /\ (e - s - max_section_length) < sentence_search_limit
       /\ At(text, e) \notin sentence_endings
    THEN FindEnd(text, s, e + 1, IF At(text, e) \in word_breaks THEN e ELSE last_word)
    ELSE <<e, last_word>>

\* lines 159-177: the end of the window that starts (tentatively) at s
WindowEnd(text, s) ==
    LET length == Len(text)
        e0 == s + max_section_length
        e1 == IF e0 > length THEN length
              ELSE LET r == FindEnd(text, s, e0, -1)
                   IN IF r[1] < length /\ At(text, r[1]) \notin sentence_endings /\ r[2] > 0
                      THEN r[2]
                      ELSE r[1]
    IN IF e1 < length THEN e1 + 1 ELSE e1

\* mutant of FindStart: the backward search without its distance test
RECURSIVE FindStartUnlimited(_, _, _, _)
FindStartUnlimited(text, s, e, last_word) ==
    IF /\ s > 0
       /\ At(text, s) \notin sentence_endings
    THEN FindStartUnlimited(text, s - 1, e,
                            IF At(text, s) \in word_breaks THEN s ELSE last_word)
    ELSE <<s, last_word>>

\* the backward search of lines 181-188: <<start, last_word>>
RECURSIVE FindStart(_, _, _, _)
FindStart(text, s, e, last_word) ==
    IF /\ s > 0
       /\ s > e - max_section_length - 2 * sentence_search_limit
       /\ At(text, s) \notin sentence_endings
    THEN FindStart(text, s - 1, e, IF At(text, s) \in word_breaks THEN s ELSE last_word)
    ELSE <<s, last_word>>

\* lines 180-192: the start of the window, from its tentative start s and its end e
WindowStart(text, s, e) ==
    LET r == FindStart(text, s, e, -1)
        s1 == IF At(text, r[1]) \notin sentence_endings /\ r[2] > 0 THEN r[2] ELSE r[1]
    IN IF s1 > 0 THEN s1 + 1 ELSE s1

\* the test of lines 197-200 on a section's text
UnclosedFigure(section_text) ==
    LET last_figure_start == RFind(section_text, FIGURE_OPEN)
    IN /\ last_figure_start > 2 * sentence_search_limit
       /\ last_figure_start > RFind(section_text, FIGURE_CLOSE)

\* mutant of NextStart: the next window starts at end, the overlap forgotten
NextStartNoOverlap(section_text, s, e) ==
    IF UnclosedFigure(section_text)
    THEN Min(e, s + RFind(section_text, FIGURE_OPEN))
    ELSE e

\* mutant of NextStart: the unclosed figure is ignored
NextStartNoFigure(section_text, s, e) == e - section_overlap

\* lines 197-207: the tentative start of the next window
NextStart(section_text, s, e) ==
    IF UnclosedFigure(section_text)
    THEN Min(e - section_overlap, s + RFind(section_text, FIGURE_OPEN))
    ELSE e - section_overlap

\* the tentative starts with which an iteration of the window loop has begun
Tried == {windows[k].tentative : k \in 1..Len(windows)}

\* lines 147-149: the buffer is empty or whitespace only, nothing is yielded
SentBlank ==
    /\ pc = "begin"
    /\ IsBlank(JoinPages(pages))
    /\ all_text' = JoinPages(pages)
    /\ pc' = "done"
    /\ UNCHANGED <<pages, max_tokens_per_section, max_object_length, start, end, i,
                   stack, out, windows, lastSplit>>

\* lines 151-154: the buffer fits one section and goes to the token splitter whole
SentShort ==
    /\ pc = "begin"
    /\ ~IsBlank(JoinPages(pages))
    /\ Len(JoinPages(pages)) <= max_section_length
    /\ all_text' = JoinPages(pages)
    /\ stack' = <<Call(find_page(pages, 0), JoinPages(pages), 0, 0, 0)>>
    /\ pc' = "call"
    /\ UNCHANGED <<pages, max_tokens_per_section, max_object_length, start, end, i,
                   out, windows, lastSplit>>

\* lines 151-157: the buffer is longer than a section, the window loop is entered
SentEnterLoop ==
    /\ pc = "begin"
    /\ ~IsBlank(JoinPages(pages))
    /\ Len(JoinPages(pages)) > max_section_length
    /\ all_text' = JoinPages(pages)
    /\ start' = 0
    /\ end' = Len(JoinPages(pages))
    /\ pc' = "loop"
    /\ UNCHANGED <<pages, max_tokens_per_section, max_object_length, i, stack, out,
                   windows, lastSplit>>

\* lines 158-195: one iteration up to its yield from: the window's end and start
\* are found and the section is handed to the token splitter
Window ==
    /\ pc = "loop"
    /\ start + section_overlap < Len(all_text)
    /\ start \notin Tried
    /\ LET e == WindowEnd(all_text, start)
           s == WindowStart(all_text, start, e)
       IN /\ end' = e
          /\ start' = s
          /\ stack' = <<Call(find_page(pages, s), Slice(all_text, s, e), s, s, 0)>>
          /\ windows' = Append(windows, [tentative |-> start, start |-> s, end |-> e])
    /\ pc' = "yield"
    /\ UNCHANGED <<pages, all_text, max_tokens_per_section, max_object_length, i, out,
                   lastSplit>>

\* lines 197-207: after the section's fragments, the next window's tentative start
Advance ==
    /\ pc = "yield"
    /\ stack = <<>>
    /\ start' = NextStart(Slice(all_text, start, end), start, end)
    /\ pc' = "loop"
    /\ UNCHANGED <<pages, all_text, max_tokens_per_section, max_object_length, end, i,
                   stack, out, windows, lastSplit>>

\* line 158 with a value of start an earlier iteration began with: an iteration
\* is a function of start and the buffer alone, so the loop repeats from here
\* for ever, yielding the same sections again
WindowRepeats ==
    /\ pc = "loop"
    /\ start + section_overlap < Len(all_text)
    /\ start \in Tried
    /\ pc' = "diverged"
    /\ UNCHANGED <<pages, all_text, max_tokens_per_section, max_object_length, start, end,
                   i, stack, out, windows, lastSplit>>

\* lines 158 and 209-210: the loop ends, and a trailing section is split if
\* start + section_overlap < end
LoopExit ==
    /\ pc = "loop"
    /\ ~(start + section_overlap < Len(all_text))
    /\ stack' = IF start + section_overlap < end
                THEN <<Call(find_page(pages, start), Slice(all_text, start, end),
                            start, start, 0)>>
                ELSE <<>>
    /\ pc' = "call"
    /\ UNCHANGED <<pages, all_text, max_tokens_per_section, max_object_length, start, end,
                   i, out, windows, lastSplit>>

\* two pages cut in the middle (one page when the buffer is too short)
MiddleCut(n) == IF n < 2 THEN {<<>>} ELSE {<<n \div 2>>}

\* one page, every cut into two pages, and cuts into three pages
AllCuts(n) ==
    {<<>>} \cup {<<a>> : a \in 1..(n - 1)}
           \cup {<<a, a + 1>> : a \in 1..(n - 2)}

InitSent(text, cuts) ==
    /\ pages = PagesOf(text, cuts)
    /\ all_text = <<>>
    /\ max_tokens_per_section = default_max_tokens
    /\ max_object_length = 0
    /\ start = 0
    /\ end = 0
    /\ i = 0
    /\ pc = "begin"
    /\ stack = <<>>
    /\ out = <<>>
    /\ windows = <<>>
    /\ lastSplit = <<>>

\* buffers of up to MaxLen characters (at most two windows), and buffers just
\* over two sections long (a second window that is not clipped)
Init ==
    \/ \E n \in 0..MaxLen : \E t \in TextsOfLen(n, {".", " ", "F", "G"}) :
          \E cuts \in MiddleCut(n) : InitSent(t, cuts)
    \/ \E n \in (2 * max_section_length + 1)..(2 * max_section_length + LongExtra) :
          \E t \in TextsOfLen(n, {".", " ", "F"}) :
             \E cuts \in MiddleCut(n) : InitSent(t, cuts)

Next ==
    \/ SentBlank
    \/ SentShort
    \/ SentEnterLoop
    \/ Window
    \/ Advance
    \/ WindowRepeats
    \/ LoopExit
    \/ TokEmit
    \/ TokSplit
    \/ Return

Spec == Init /\ [][Next]_vars

\* the page attribution runs: every cut of buffers with at most one sentence
\* ending or figure tag
OneOfLen(n, chars) ==
    IF n = 0 THEN {<<>>}
    ELSE {[k \in 1..n |-> IF k = p THEN c ELSE "a"] : p \in 1..n, c \in chars \cup {"a"}}

InitPages ==
    \E n \in 0..MaxPagesLen : \E t \in OneOfLen(n, {".", "F"}) :
        \E cuts \in AllCuts(n) : InitSent(t, cuts)

SpecPages == InitPages /\ [][Next]_vars

----------------------------------------------------------------------------
(* SimpleTextSplitter.split_pages *)

\* mutant of SimpleSliceText: the slice's end off by one
SimpleSliceLong(text, k, n) == Slice(text, k, k + n + 1)

\* all_text[i : i + self.max_object_length] of line 234
SimpleSliceText(text, k, n) == Slice(text, k, k + n)

\* lines 223-225: the buffer is empty or whitespace only, nothing is yielded
SimpleBlank ==
    /\ pc = "begin"
    /\ IsBlank(JoinPages(pages))
    /\ all_text' = JoinPages(pages)
    /\ pc' = "done"
    /\ UNCHANGED <<pages, max_tokens_per_section, max_object_length, start, end, i,
                   stack, out, windows, lastSplit>>

\* lines 227-230: the buffer fits one object and is yielded whole as page 0
SimpleWhole ==
    /\ pc = "begin"
    /\ ~IsBlank(JoinPages(pages))
    /\ Len(JoinPages(pages)) <= max_object_length
    /\ all_text' = JoinPages(pages)
    /\ out' = Append(out, [page_num |-> 0, text |-> JoinPages(pages), off |-> 0, sec |-> 0])
    /\ pc' = "done"
    /\ UNCHANGED <<pages, max_tokens_per_section, max_object_length, start, end, i,
                   stack, windows, lastSplit>>

\* lines 227-233: the buffer is too long, the for loop is entered
SimpleEnterLoop ==
    /\ pc = "begin"
    /\ ~IsBlank(JoinPages(pages))
    /\ Len(JoinPages(pages)) > max_object_length
    /\ all_text' = JoinPages(pages)
    /\ i' = 0
    /\ pc' = "for"
    /\ UNCHANGED <<pages, max_tokens_per_section, max_object_length, start, end,
                   stack, out, windows, lastSplit>>

\* lines 233-234: one slice is yielded, numbered by its ordinal
SimpleSlice ==
    /\ pc = "for"
    /\ i < Len(all_text)
    /\ out' = Append(out, [page_num |-> i \div max_object_length,
                           text |-> SimpleSliceText(all_text, i, max_object_length),
                           off |-> i, sec |-> i])
    /\ i' = i + max_object_length
    /\ UNCHANGED <<pages, all_text, max_tokens_per_section, max_object_length, start, end,
                   pc, stack, windows, lastSplit>>

\* lines 233-235: range(0, length, max_object_length) is exhausted
SimpleDone ==
    /\ pc = "for"
    /\ ~(i < Len(all_text))
    /\ pc' = "done"
    /\ UNCHANGED <<pages, all_text, max_tokens_per_section, max_object_length, start, end,
                   i, stack, out, windows, lastSplit>>

InitSimple ==
    /\ \E n \in 0..MaxSimpleLen : \E t \in TextsOfLen(n, {" "}) :
          \E cuts \in MiddleCut(n) : pages = PagesOf(t, cuts)
    /\ all_text = <<>>
    /\ max_tokens_per_section = 0
    /\ max_object_length \in 1..MaxObjectLength
    /\ start = 0
    /\ end = 0
    /\ i = 0
    /\ pc = "begin"
    /\ stack = <<>>
    /\ out = <<>>
    /\ windows = <<>>
    /\ lastSplit = <<>>

NextSimple == SimpleBlank \/ SimpleWhole \/ SimpleEnterLoop \/ SimpleSlice \/ SimpleDone

SpecSimple == InitSimple /\ [][NextSimple]_vars

----------------------------------------------------------------------------
(* Properties *)

\* the section windows[k] as text
SectionText(k) == Slice(all_text, windows[k].start, windows[k].end)

\* the fragment out[k] holds buffer index j, and its text is the buffer's there
Covers(k, j) ==
    /\ out[k].off <= j
    /\ j < out[k].off + Len(out[k].text)
    /\ out[k].text = Slice(all_text, out[k].off, out[k].off + Len(out[k].text))

\* the page_num of the page whose range [offset, next offset) holds offset o,
\* the last page's range being open ended
PageContaining(o) ==
    LET k == CHOOSE k \in 1..Len(pages) :
                 /\ pages[k].offset <= o
                 /\ (k = Len(pages) \/ o < pages[k + 1].offset)
    IN pages[k].page_num

\* ceil(a / b) for b > 0
CeilDiv(a, b) == (a + b - 1) \div b

\* C1: every SplitPage yielded by split_page_by_max_tokens has a text of at
\* most max_tokens_per_section tokens and carries the page number passed in.
C1_FragmentsWithinBudget ==
    \A k \in 1..Len(out) :
        /\ CountTokens(out[k].text) <= max_tokens_per_section
        /\ out[k].page_num = pages[1].page_num

\* C1 witness: a call that had to recurse has finished with several fragments.
C1_Witness ==
    /\ pc = "done"
    /\ lastSplit # <<>>
    /\ Len(out) >= 3

\* C2: split_page_by_max_tokens terminates on every text of length > 0: when
\* the text is over budget both halves it recurses on are strictly shorter
\* than the text, and the recursion never runs into the recursion limit.
C2_HalvesStrictlyShorter ==
    /\ pc # "RecursionError"
    /\ lastSplit # <<>> => (lastSplit[2] < lastSplit[1] /\ lastSplit[3] < lastSplit[1])

\* C3: the window loop of split_pages runs finitely many iterations on every
\* buffer longer than max_section_length: it never begins an iteration with a
\* value of start it has begun one with before.
C3_WindowLoopTerminates == pc # "diverged"

C5_OverlapAtLeastSectionOverlap ==
    \A k \in 1..(Len(windows) - 1) :
        windows[k + 1].start <= windows[k].end - section_overlap

\* C5 amended: consecutive sections overlap by at least section_overlap - 1
\* characters.
C5_OverlapAtLeastOneLess ==
    \A k \in 1..(Len(windows) - 1) :
        windows[k + 1].start <= windows[k].end - section_overlap + 1

\* C5 witness: two consecutive sections that overlap by section_overlap - 1.
C5_Witness ==
    \E k \in 1..(Len(windows) - 1) :
        windows[k + 1].start = windows[k].end - section_overlap + 1

\* C6 as claimed: every SplitPage of split_pages carries the page that holds
\* the buffer offset at which its own text starts.
C6_PageOfFragmentStart ==
    \A k \in 1..Len(out) : out[k].page_num = PageContaining(out[k].off)

\* C6 amended: every SplitPage of split_pages carries the page that holds the
\* buffer offset at which the section it was cut from starts.
C6_PageOfSectionStart ==
    \A k \in 1..Len(out) : out[k].page_num = PageContaining(out[k].sec)

\* C6 witness: a later fragment of a subdivided section starts on another page
\* than its section does.
C6_Witness ==
    \E k \in 1..Len(out) :
        /\ out[k].off # out[k].sec
        /\ PageContaining(out[k].off) # PageContaining(out[k].sec)
        /\ out[k].sec > 0

\* C7: when a section's text has an unclosed figure opening tag beyond
\* 2 * sentence_search_limit and another section follows, that section starts
\* at or before the tag.
C7_NextSectionHoldsFigure ==
    \A k \in 1..(Len(windows) - 1) :
        UnclosedFigure(SectionText(k)) =>
            windows[k + 1].start <= windows[k].start + RFind(SectionText(k), FIGURE_OPEN)

\* C7 witness: a section with such a tag, lying before end - section_overlap,
\* is followed by another section.
C7_Witness ==
    \E k \in 1..(Len(windows) - 1) :
        /\ UnclosedFigure(SectionText(k))
        /\ windows[k].start + RFind(SectionText(k), FIGURE_OPEN)
              < windows[k].end - section_overlap

\* C8 as claimed: for every input of SimpleTextSplitter.split_pages each
\* fragment is at most max_object_length long and there are
\* ceil(total_length / max_object_length) fragments.
C8_BoundAndCount ==
    /\ \A k \in 1..Len(out) : Len(out[k].text) <= max_object_length
    /\ pc = "done" => Len(out) = CeilDiv(Len(all_text), max_object_length)

\* C8 amended: the same for every input whose buffer is not whitespace only.
C8_BoundAndCountNonBlank ==
    /\ \A k \in 1..Len(out) : Len(out[k].text) <= max_object_length
    /\ (pc = "done" /\ ~IsBlank(all_text)) =>
          Len(out) = CeilDiv(Len(all_text), max_object_length)

\* C8 witness: a buffer was sliced into several fragments, the last one shorter.
C8_Witness ==
    /\ pc = "done"
    /\ ~IsBlank(all_text)
    /\ Len(out) >= 2
    /\ Len(out[Len(out)].text) < max_object_length

\* C9 as claimed: in every iteration the backward search moves start back by
\* at most 2 * sentence_search_limit from its tentative position.
C9_BackAtMostTwiceLimit ==
    \A k \in 1..Len(windows) :
        windows[k].tentative - windows[k].start <= 2 * sentence_search_limit

\* C9 amended: that holds in every iteration whose tentative end
\* start + max_section_length is not clipped to the buffer's length; in every
\* iteration the start stays above end - max_section_length -
\* 2 * sentence_search_limit, or is 0.
C9_BackAtMostTwiceLimitUnclipped ==
    \A k \in 1..Len(windows) :
        /\ windows[k].tentative + max_section_length <= Len(all_text) =>
              windows[k].tentative - windows[k].start <= 2 * sentence_search_limit
        /\ \/ windows[k].start = 0
           \/ windows[k].start
                 > windows[k].end - max_section_length - 2 * sentence_search_limit

\* C9 witness: an iteration that is not clipped moved its start back.
C9_Witness ==
    \E k \in 1..Len(windows) :
        /\ windows[k].tentative + max_section_length <= Len(all_text)
        /\ windows[k].tentative - windows[k].start >= 2 * sentence_search_limit - 2
        /\ windows[k].start > 0

\* C10: every section handed to the token splitter satisfies
\* 0 <= start < end <= length and end - start <= max_section_length +
\* 2 * sentence_search_limit.
C10_SectionSize ==
    \A k \in 1..Len(windows) :
        /\ 0 <= windows[k].start
        /\ windows[k].start < windows[k].end
        /\ windows[k].end <= Len(all_text)
        /\ windows[k].end - windows[k].start
              <= max_section_length + 2 * sentence_search_limit

\* C10 witness: a section past the first that is one short of the bound.
C10_Witness ==
    \E k \in 1..Len(windows) :
        /\ windows[k].start > 0
        /\ windows[k].end - windows[k].start
              = max_section_length + 2 * sentence_search_limit - 1

====
